---- MODULE Spec2Model ----
(***************************************************************************)
(* NL2SQL sales demo: the three Streamlit scripts of the repository        *)
(*   nl2sql_demo  src/nl2sql_demo.py  (NL2SQLEngine, GPT delegate, cache)   *)
(*   app          src/app.py          (session-state df/conn, seed 42)      *)
(*   mvp_app      src/mvp_app.py      (session-state df/conn, unseeded)     *)
(* Text (questions, delegate responses, SQL) is modelled as TLA+ strings,   *)
(* character by character.  Money is modelled in integer cents.             *)
(***************************************************************************)
EXTENDS Integers, Sequences, FiniteSets, TLC

VARIABLES
    script,       \* which script this session runs
    pc,           \* position of the session: "start", "idle", or a pure-function phase
    rng,          \* state of Python's module-level random generator
    n_rows,       \* slider value
    use_ai,       \* nl2sql_demo: "Use AI" checkbox
    api_key,      \* nl2sql_demo: API key text input (None when the box is unchecked)
    question,     \* value of the question input of the last run
    ss_question,  \* st.session_state.question / current_question
    cache,        \* nl2sql_demo: st.cache_data memo of generate_sales_data, by n_rows
    df,           \* dataset held by the script (session state, or the run's local)
    conn,         \* sqlite connection held by the script
    response,     \* outcome of the delegate call of the last run
    sql,          \* SQL text handed to execution in the last run
    error,        \* error value of the translation step of the last run
    method,       \* method label of the last run
    result,       \* outcome of pd.read_sql_query of the last run
    selected,     \* mvp_app: value of the question selectbox
    event         \* the UI event the last run handled

vars == <<script, pc, rng, n_rows, use_ai, api_key, question, ss_question,
          cache, df, conn, response, sql, error, method, result, selected, event>>

(***************************************************************************)
(* Bounds of the model.                                                    *)
(***************************************************************************)
MaxFrags == 3      \* fragments concatenated into a question (pure translation)
MaxParts == 4      \* fragments concatenated into a delegate response (clean-up)
MaxRows  == 2      \* largest slider value (the sliders start at 100 in the code)
RngMod   == 8      \* number of states of the abstract random generator

(***************************************************************************)
(* Python values.                                                          *)
(***************************************************************************)
None == [none |-> TRUE]
Some(v) == [some |-> v]

Scripts == {"nl2sql_demo", "app", "mvp_app"}

(***************************************************************************)
(* Strings: str.lower, in, str.replace, str.strip, re.search.              *)
(***************************************************************************)
Char(s, i) == SubSeq(s, i, i)

UpperChars == "ABCDEFGHIJKLMNOPQRSTUVWXYZ"
LowerChars == "abcdefghijklmnopqrstuvwxyz"

\* upper-case letter -> lower-case letter
LowerMap ==
    [c \in {Char(UpperChars, i) : i \in 1..Len(UpperChars)} |->
        Char(LowerChars, CHOOSE i \in 1..Len(UpperChars) : Char(UpperChars, i) = c)]

LowerChar(c) == IF c \in DOMAIN LowerMap THEN LowerMap[c] ELSE c

\* str.lower, letter by letter (the text is split in halves to keep the
\* evaluation shallow)
RECURSIVE Lower(_)
Lower(s) ==
    IF Len(s) = 0 THEN ""
    ELSE IF Len(s) = 1 THEN LowerChar(s)
    ELSE Lower(SubSeq(s, 1, Len(s) \div 2)) \o Lower(SubSeq(s, Len(s) \div 2 + 1, Len(s)))

\* Python's substring test: sub in s
Contains(s, sub) ==
    \E i \in 1..(Len(s) - Len(sub) + 1) : SubSeq(s, i, i + Len(sub) - 1) = sub

IsSpace(c) == c \in {" ", "\t", "\n", "\r", "\f"}
IsDigit(c) == c \in {"0", "1", "2", "3", "4", "5", "6", "7", "8", "9"}

\* str.replace(old, ""): the leftmost occurrence is removed, then the search
\* goes on behind it
RECURSIVE Remove(_, _)
Remove(s, old) ==
    IF ~Contains(s, old) THEN s
    ELSE LET i == CHOOSE k \in 1..(Len(s) - Len(old) + 1) :
                    /\ SubSeq(s, k, k + Len(old) - 1) = old
                    /\ \A m \in 1..(k - 1) : SubSeq(s, m, m + Len(old) - 1) # old
         IN  SubSeq(s, 1, i - 1) \o Remove(SubSeq(s, i + Len(old), Len(s)), old)

\* str.strip(): leading and trailing whitespace removed
Strip(s) ==
    LET keep == {i \in 1..Len(s) : ~IsSpace(Char(s, i))} IN
    IF keep = {} THEN ""
    ELSE SubSeq(s, CHOOSE i \in keep : \A j \in keep : i <= j,
                   CHOOSE i \in keep : \A j \in keep : i >= j)

\* end (exclusive) of the run of whitespace, of digits, that starts at i
SpaceRunEnd(s, i) ==
    CHOOSE j \in i..(Len(s) + 1) :
        /\ \A k \in i..(j - 1) : IsSpace(Char(s, k))
        /\ j = Len(s) + 1 \/ ~IsSpace(Char(s, j))

DigitRunEnd(s, i) ==
    CHOOSE j \in i..(Len(s) + 1) :
        /\ \A k \in i..(j - 1) : IsDigit(Char(s, k))
        /\ j = Len(s) + 1 \/ ~IsDigit(Char(s, j))

\* the pattern top\s+(\d+) matches at position i
TopMatchAt(s, i) ==
    /\ i + 2 <= Len(s)
    /\ SubSeq(s, i, i + 2) = "top"
    /\ i + 3 <= Len(s)
    /\ SpaceRunEnd(s, i + 3) > i + 3
    /\ DigitRunEnd(s, SpaceRunEnd(s, i + 3)) > SpaceRunEnd(s, i + 3)

\* re.search(r'top\s+(\d+)', s): group(1) of the leftmost match, or None
ReSearchTop(s) ==
    IF \E i \in 1..Len(s) : TopMatchAt(s, i)
    THEN LET i == CHOOSE k \in 1..Len(s) :
                     TopMatchAt(s, k) /\ \A m \in 1..(k - 1) : ~TopMatchAt(s, m)
             j == SpaceRunEnd(s, i + 3)
         IN  Some(SubSeq(s, j, DigitRunEnd(s, j) - 1))
    ELSE None

(***************************************************************************)
(* SQL texts of the rule-based translators.                                *)
(***************************************************************************)
PreviewSQL == "SELECT * FROM sales LIMIT 10"

DemoRegionSQL ==
    "SELECT region, SUM(total_sales) as total_sales FROM sales GROUP BY region ORDER BY total_sales DESC"
DemoTopPrefix ==
    "SELECT product, SUM(quantity) as total_quantity FROM sales GROUP BY product ORDER BY total_quantity DESC LIMIT "
DemoMonthlySQL ==
    "SELECT strftime('%Y-%m', order_date) as month, SUM(total_sales) as monthly_sales FROM sales GROUP BY month ORDER BY month"
DemoProfitSQL ==
    "SELECT category, SUM(profit) as total_profit FROM sales GROUP BY category ORDER BY total_profit DESC"

AppRegionSQL ==
    "\n            SELECT region, SUM(total_sales) as total_sales \n            FROM sales \n            GROUP BY region \n            ORDER BY total_sales DESC\n            "
AppTopSQL ==
    "\n            SELECT product, SUM(quantity) as total_quantity \n            FROM sales \n            GROUP BY product \n            ORDER BY total_quantity DESC \n            LIMIT 5\n            "
AppMonthlySQL ==
    "\n            SELECT strftime('%Y-%m', order_date) as month, \n                   SUM(total_sales) as monthly_sales \n            FROM sales \n            GROUP BY month \n            ORDER BY month\n            "
AppProfitSQL ==
    "\n            SELECT category, SUM(profit) as total_profit \n            FROM sales \n            GROUP BY category \n            ORDER BY total_profit DESC\n            "
MvpAvgPriceSQL ==
    "\n            SELECT product, AVG(price) as avg_price \n            FROM sales \n            GROUP BY product \n            ORDER BY avg_price DESC\n            "

(***************************************************************************)
(* Rule-based translation.                                                 *)
(***************************************************************************)
\* mutant: the top-products rule is tested before the region rule
generate_sql_rule_based_top_first(q) ==
    LET question_lower == Lower(q) IN
    IF Contains(question_lower, "top") /\ Contains(question_lower, "product")
    THEN LET match == ReSearchTop(question_lower)
             limit == IF match # None THEN match.some ELSE "5"
         IN  DemoTopPrefix \o limit
    ELSE IF Contains(question_lower, "total sales") /\ Contains(question_lower, "region")
    THEN DemoRegionSQL
    ELSE IF Contains(question_lower, "monthly") \/ Contains(question_lower, "trend")
    THEN DemoMonthlySQL
    ELSE IF Contains(question_lower, "profit") /\ Contains(question_lower, "category")
    THEN DemoProfitSQL
    ELSE PreviewSQL

\* mutant: the trend rule asks for both of its keywords
generate_sql_rule_based_trend_and(q) ==
    LET question_lower == Lower(q) IN
    IF Contains(question_lower, "total sales") /\ Contains(question_lower, "region")
    THEN DemoRegionSQL
    ELSE IF Contains(question_lower, "top") /\ Contains(question_lower, "product")
    THEN LET match == ReSearchTop(question_lower)
             limit == IF match # None THEN match.some ELSE "5"
         IN  DemoTopPrefix \o limit
    ELSE IF Contains(question_lower, "monthly") /\ Contains(question_lower, "trend")
    THEN DemoMonthlySQL
    ELSE IF Contains(question_lower, "profit") /\ Contains(question_lower, "category")
    THEN DemoProfitSQL
    ELSE PreviewSQL

\* NL2SQLEngine.generate_sql_rule_based
generate_sql_rule_based(q) ==
    LET question_lower == Lower(q) IN
    IF Contains(question_lower, "total sales") /\ Contains(question_lower, "region")
    THEN DemoRegionSQL
    ELSE IF Contains(question_lower, "top") /\ Contains(question_lower, "product")
    THEN LET match == ReSearchTop(question_lower)
             limit == IF match # None THEN match.some ELSE "5"
         IN  DemoTopPrefix \o limit
    ELSE IF Contains(question_lower, "monthly") \/ Contains(question_lower, "trend")
    THEN DemoMonthlySQL
    ELSE IF Contains(question_lower, "profit") /\ Contains(question_lower, "category")
    THEN DemoProfitSQL
    ELSE PreviewSQL

\* app.py main: the inline if/elif chain
app_rule_sql(q) ==
    LET question_lower == Lower(q) IN
    IF Contains(question_lower, "total sales") /\ Contains(question_lower, "region")
    THEN AppRegionSQL
    ELSE IF Contains(question_lower, "top") /\ Contains(question_lower, "product")
    THEN AppTopSQL
    ELSE IF Contains(question_lower, "monthly") \/ Contains(question_lower, "trend")
    THEN AppMonthlySQL
    ELSE IF Contains(question_lower, "profit") /\ Contains(question_lower, "category")
    THEN AppProfitSQL
    ELSE PreviewSQL

\* mvp_app.py: the inline if/elif chain
mvp_rule_sql(q) ==
    LET question_lower == Lower(q) IN
    IF Contains(question_lower, "total sales") /\ Contains(question_lower, "region")
    THEN AppRegionSQL
    ELSE IF Contains(question_lower, "top") /\ Contains(question_lower, "product")
    THEN AppTopSQL
    ELSE IF Contains(question_lower, "monthly") \/ Contains(question_lower, "trend")
    THEN AppMonthlySQL
    ELSE IF Contains(question_lower, "average") /\ Contains(question_lower, "price")
    THEN MvpAvgPriceSQL
    ELSE PreviewSQL

\* the rule-based translator of script s
RuleSQL(s, q) ==
    CASE s = "nl2sql_demo" -> generate_sql_rule_based(q)
      [] s = "app"         -> app_rule_sql(q)
      [] s = "mvp_app"     -> mvp_rule_sql(q)

(***************************************************************************)
(* Python's random module, abstracted to a generator with RngMod states:   *)
(* every call consumes one state; random.seed(k) resets the state.         *)
(***************************************************************************)
\* the generator is seeded from the system at start-up: the start states explored
StartStates == {1, RngMod - 2}
RngNext(s) == (5 * s + 3) % RngMod

RECURSIVE RngAt(_, _)
RngAt(s, k) == IF k = 0 THEN s ELSE RngAt(RngNext(s), k - 1)

\* mutant: seeding leaves the generator where it is
seed_ignored(k) == rng

seed(k) == k % RngMod
randint(s, a, b) == a + (s % (b - a + 1))
choice(s, xs) == xs[1 + (s % Len(xs))]
\* random.uniform(a, b) with a, b given in units of 1/scale: a value in [a, b]
uniform(s, a, b) == a + ((s * 11003) % (b - a + 1))

\* round(x / d) for integers, ties to even (Python's round)
RoundDiv(x, d) ==
    LET q == x \div d
        r == x % d
    IN  IF 2 * r < d THEN q
        ELSE IF 2 * r > d THEN q + 1
        ELSE IF q % 2 = 0 THEN q ELSE q + 1

SeedValue == 42

(***************************************************************************)
(* Floating point.  A price is a double rounded to 2 decimals: the double  *)
(* nearest to c/100 for an integer c of cents.  The product of a small     *)
(* integer and such a double is a double again, and need not be the double *)
(* nearest to the decimal product: it lies a few units in the last place   *)
(* (ulps) off.  A Float is [cents, ulps]: the double that lies ulps units  *)
(* in the last place from the double nearest to cents/100.                 *)
(***************************************************************************)
RECURSIVE Pow2(_)
Pow2(k) == IF k = 0 THEN 1 ELSE 2 * Pow2(k - 1)

\* 2^k modulo m
RECURSIVE Pow2Mod(_, _)
Pow2Mod(k, m) == IF k = 0 THEN 1 % m ELSE (2 * Pow2Mod(k - 1, m)) % m

\* the binary exponent e of c/100: 2^e <= c/100 < 2^(e+1), for c >= 100
Exponent(c) == CHOOSE e \in 0..20 : 100 * Pow2(e) <= c /\ c < 100 * Pow2(e + 1)

\* num/den rounded to the nearest integer, ties to the even neighbour; odd
\* tells that the integer the quotient is an offset from is odd
RoundHalfEven(num, den, odd) ==
    LET fl  == IF num >= 0 THEN num \div den ELSE -((-num + den - 1) \div den)
        rem == num - fl * den
    IN  IF 2 * rem < den THEN fl
        ELSE IF 2 * rem > den THEN fl + 1
        ELSE IF (fl + (IF odd THEN 1 ELSE 0)) % 2 = 0 THEN fl ELSE fl + 1

\* IEEE-754 binary64 product q * (double nearest c/100), as the number of ulps
\* it lies from the double nearest (q*c)/100.  With k = 52 - Exponent(c) the
\* significand of the price is M = round(c * 2^k / 100), and the product is q*M
\* rounded to 53 bits; only residues modulo 100 and 200 are needed.
MulUlps(q, c) ==
    LET k     == 52 - Exponent(c)
        shift == Exponent(q * c) - Exponent(c)
        r     == (c * Pow2Mod(k, 100)) % 100
        eps   == IF r < 50 THEN -r ELSE 100 - r
        t     == (q * c * Pow2Mod(k - shift, 200)) % 200
        r2    == t % 100
    IN  RoundHalfEven(r2 * Pow2(shift) + q * eps, 100 * Pow2(shift), t >= 100)
          - (IF r2 < 50 THEN 0 ELSE 1)

\* quantity * price on doubles
FloatMul(q, c) == [cents |-> q * c, ulps |-> MulUlps(q, c)]

\* round(x, 2): the double nearest to the 2-decimal value next to x
Round2(x) == [cents |-> x.cents, ulps |-> 0]

\* f'{n:0{w}d}' on the decimal text t of a number
RECURSIVE ZeroPad(_, _)
ZeroPad(t, w) == IF Len(t) >= w THEN t ELSE ZeroPad("0" \o t, w)

\* mutant: the running number loses its last digit
DemoOrderId_tens(i) == "ORD" \o ToString((10000 + i) \div 10)

\* f'ORD{10000 + i}' (nl2sql_demo.py)
DemoOrderId(i) == "ORD" \o ToString(10000 + i)

\* f'ORD{i:05d}' (app.py, mvp_app.py)
OrderId(i) == "ORD" \o ZeroPad(ToString(i), 5)

(***************************************************************************)
(* Data generation.  Money in cents, factors in 1/1000, dates as the day    *)
(* offset from 2023-01-01.                                                  *)
(***************************************************************************)
DemoDrawsPerRow == 11
AppDrawsPerRow  == 10
MvpDrawsPerRow  == 5

DemoColumns == {"order_id", "customer_id", "order_date", "product", "category",
                "region", "quantity", "unit_price", "total_sales", "cost_price",
                "profit", "payment_method", "customer_type", "discount"}
AppColumns  == DemoColumns \ {"cost_price"}
MvpColumns  == {"order_id", "customer_id", "order_date", "product", "region",
                "quantity", "price", "total_sales"}

\* nl2sql_demo.py generate_sales_data: row i, drawn from generator state s
DemoRow(i, s) ==
    LET order_date == randint(RngAt(s, 0), 0, 365)
        quantity   == randint(RngAt(s, 1), 1, 5)
        unit_price == uniform(RngAt(s, 2), 5000, 200000)
        cost_price == RoundDiv(unit_price * uniform(RngAt(s, 3), 400, 700), 1000)
    IN  [ order_id       |-> DemoOrderId(i),
          customer_id    |-> randint(RngAt(s, 4), 1000, 9999),
          order_date     |-> order_date,
          product        |-> choice(RngAt(s, 5),
                               <<"Laptop Pro", "Phone X", "Tablet Air", "Monitor Ultra",
                                 "Keyboard Elite", "Mouse Pro", "Headphones Max",
                                 "Charger Fast", "Case Premium", "Stand Adjustable">>),
          category       |-> choice(RngAt(s, 6),
                               <<"Electronics", "Accessories", "Computers", "Mobile">>),
          region         |-> choice(RngAt(s, 7),
                               <<"North America", "Europe", "Asia Pacific",
                                 "Latin America", "Middle East">>),
          quantity       |-> quantity,
          unit_price     |-> unit_price,
          total_sales    |-> Round2(FloatMul(quantity, unit_price)),
          cost_price     |-> cost_price,
          profit         |-> (unit_price - cost_price) * quantity,
          payment_method |-> choice(RngAt(s, 8),
                               <<"Credit Card", "PayPal", "Bank Transfer", "Cash">>),
          customer_type  |-> choice(RngAt(s, 9), <<"New", "Returning", "VIP">>),
          discount       |-> uniform(RngAt(s, 10), 0, 30) ]

\* app.py generate_sales_data: row i, drawn from generator state s
AppRow(i, s) ==
    LET quantity   == randint(RngAt(s, 0), 1, 5)
        unit_price == uniform(RngAt(s, 1), 5000, 100000)
    IN  [ order_id       |-> OrderId(i),
          customer_id    |-> randint(RngAt(s, 2), 1000, 9999),
          order_date     |-> i % 365,
          product        |-> choice(RngAt(s, 3),
                               <<"Laptop Pro", "Phone X", "Tablet Air", "Monitor Ultra",
                                 "Keyboard Elite">>),
          category       |-> choice(RngAt(s, 4),
                               <<"Electronics", "Accessories", "Computers", "Mobile">>),
          region         |-> choice(RngAt(s, 5),
                               <<"North America", "Europe", "Asia Pacific",
                                 "Latin America", "Middle East">>),
          quantity       |-> quantity,
          unit_price     |-> unit_price,
          total_sales    |-> Round2(FloatMul(quantity, unit_price)),
          profit         |-> RoundDiv(quantity * unit_price
                                        * uniform(RngAt(s, 6), 200, 500), 1000),
          payment_method |-> choice(RngAt(s, 7),
                               <<"Credit Card", "PayPal", "Bank Transfer">>),
          customer_type  |-> choice(RngAt(s, 8), <<"New", "Returning">>),
          discount       |-> uniform(RngAt(s, 9), 0, 20) ]

\* mvp_app.py create_sample_data: row i, drawn from generator state s
MvpRow(i, s) ==
    LET quantity == randint(RngAt(s, 3), 1, 5)
        price    == uniform(RngAt(s, 4), 10000, 200000)
    IN  [ order_id    |-> OrderId(i),
          customer_id |-> randint(RngAt(s, 0), 1000, 9999),
          order_date  |-> i % 365,
          product     |-> choice(RngAt(s, 1), <<"Laptop", "Phone", "Tablet", "Monitor">>),
          region      |-> choice(RngAt(s, 2), <<"North", "South", "East", "West">>),
          quantity    |-> quantity,
          price       |-> price,
          total_sales |-> FloatMul(quantity, price) ]

\* nl2sql_demo.py generate_sales_data(n): <<rows, generator state afterwards>>
demo_generate_sales_data(n, s) ==
    << [i \in 1..n |-> DemoRow(i - 1, RngAt(s, (i - 1) * DemoDrawsPerRow))],
       RngAt(s, n * DemoDrawsPerRow) >>

\* app.py generate_sales_data(n): random.seed(42), then the rows
app_generate_sales_data(n, s) ==
    LET s0 == seed(SeedValue) IN
    << [i \in 1..n |-> AppRow(i - 1, RngAt(s0, (i - 1) * AppDrawsPerRow))],
       RngAt(s0, n * AppDrawsPerRow) >>

\* mvp_app.py create_sample_data(n)
create_sample_data(n, s) ==
    << [i \in 1..n |-> MvpRow(i - 1, RngAt(s, (i - 1) * MvpDrawsPerRow))],
       RngAt(s, n * MvpDrawsPerRow) >>

Columns(s) ==
    CASE s = "nl2sql_demo" -> DemoColumns
      [] s = "app"         -> AppColumns
      [] s = "mvp_app"     -> MvpColumns

(***************************************************************************)
(* The in-memory sqlite store.                                             *)
(***************************************************************************)
\* sqlite3.connect(':memory:'): a fresh database without tables
Connect == [tables |-> {}, columns |-> {}, rows |-> <<>>]

\* DataFrame.to_sql('sales', c, if_exists=...)
to_sql(c, cols, rows, if_exists) ==
    IF "sales" \in c.tables /\ if_exists = "append"
    THEN [c EXCEPT !.rows = c.rows \o rows]
    ELSE [tables |-> {"sales"}, columns |-> cols, rows |-> rows]

\* mutant: the rows are appended to the table of the connection already held
setup_database_append(cols, rows) ==
    to_sql(IF conn = None THEN Connect ELSE conn.some, cols, rows, "append")

\* mutant: a session that holds a connection keeps it, table and all
setup_database_stale(cols, rows) ==
    IF conn = None THEN to_sql(Connect, cols, rows, "replace") ELSE conn.some

\* setup_database(df) of nl2sql_demo.py and app.py; mvp_app.py lines 50-51
setup_database(cols, rows) == to_sql(Connect, cols, rows, "replace")

(***************************************************************************)
(* SQL statements the store is asked to run, and their evaluation.         *)
(***************************************************************************)
\* texts a delegate may answer with, besides the fenced forms of the above
AllRowsSQL      == "SELECT * FROM sales"
NoTableSQL      == "SELECT * FROM nonexistent"
NoColumnSQL     == "SELECT revenue FROM sales"
DeleteSQL       == "DELETE FROM sales"

RECURSIVE ParseInt(_)
ParseInt(ds) ==
    IF ds = "" THEN 0
    ELSE 10 * ParseInt(SubSeq(ds, 1, Len(ds) - 1))
         + (CHOOSE d \in 0..9 : Char("0123456789", d + 1) = Char(ds, Len(ds)))

\* a digit string without its leading zeros
StripZeros(ds) ==
    LET i == CHOOSE k \in 1..(Len(ds) + 1) :
                 /\ \A m \in 1..(k - 1) : Char(ds, m) = "0"
                 /\ (k <= Len(ds) => Char(ds, k) # "0")
    IN  SubSeq(ds, i, Len(ds))

\* sqlite keeps an integer literal in 64 bits; a larger one becomes a REAL
Int64Max == "9223372036854775807"
ExceedsInt64(ds) ==
    LET t == StripZeros(ds) IN
    \/ Len(t) > Len(Int64Max)
    \/ /\ Len(t) = Len(Int64Max)
       /\ \E i \in 1..Len(t) :
             /\ SubSeq(t, 1, i - 1) = SubSeq(Int64Max, 1, i - 1)
             /\ ParseInt(Char(t, i)) > ParseInt(Char(Int64Max, i))

\* the value of a LIMIT literal; beyond 9 digits all that matters is that it
\* is larger than any table
BigLimit == 1000000000
LimitOf(ds) ==
    LET t == StripZeros(ds) IN IF Len(t) > 9 THEN BigLimit ELSE ParseInt(t)

IsDemoTopSQL(t) ==
    /\ Len(t) > Len(DemoTopPrefix)
    /\ SubSeq(t, 1, Len(DemoTopPrefix)) = DemoTopPrefix
    /\ DigitRunEnd(t, Len(DemoTopPrefix) + 1) = Len(t) + 1

Star(tbl, lim) ==
    [kind |-> "select", table |-> tbl, cols |-> {}, shape |-> "star", limit |-> lim]
Group(key, agg, val, order, lim) ==
    [kind |-> "select", table |-> "sales",
     cols |-> {IF key = "month" THEN "order_date" ELSE key, val},
     shape |-> "group", key |-> key, agg |-> agg, val |-> val,
     order |-> order, limit |-> lim]

\* what sqlite makes of a SQL text (limit -1: no LIMIT clause)
Stmt(t) ==
    CASE t = PreviewSQL                        -> Star("sales", 10)
      [] t \in {DemoRegionSQL, AppRegionSQL}   ->
             Group("region", "SUM", "total_sales", "value_desc", -1)
      [] t = AppTopSQL                         ->
             Group("product", "SUM", "quantity", "value_desc", 5)
      [] IsDemoTopSQL(t)                       ->
             LET digits == SubSeq(t, Len(DemoTopPrefix) + 1, Len(t)) IN
             IF ExceedsInt64(digits)
             THEN [kind |-> "limit_not_integer", limit |-> LimitOf(digits)]
             ELSE Group("product", "SUM", "quantity", "value_desc", LimitOf(digits))
      [] t \in {DemoMonthlySQL, AppMonthlySQL} ->
             Group("month", "SUM", "total_sales", "key_asc", -1)
      [] t \in {DemoProfitSQL, AppProfitSQL}   ->
             Group("category", "SUM", "profit", "value_desc", -1)
      [] t = MvpAvgPriceSQL                    ->
             Group("product", "AVG", "price", "value_desc", -1)
      [] t = AllRowsSQL                        -> Star("sales", -1)
      [] t = NoTableSQL                        -> Star("nonexistent", -1)
      [] t = NoColumnSQL                       ->
             [kind |-> "select", table |-> "sales", cols |-> {"revenue"},
              shape |-> "star", limit |-> -1]
      [] t = DeleteSQL                         -> [kind |-> "delete", table |-> "sales"]
      [] t = ""                                -> [kind |-> "empty"]
      [] OTHER                                 -> [kind |-> "syntax_error"]

\* strftime('%Y-%m', order_date) as the number yyyymm
MonthStarts == <<0, 31, 59, 90, 120, 151, 181, 212, 243, 273, 304, 334>>
MonthOf(day) ==
    IF day >= 365 THEN 202401
    ELSE 202300 + Cardinality({m \in 1..12 : MonthStarts[m] <= day})

Take(xs, lim) == IF lim >= 0 /\ lim < Len(xs) THEN SubSeq(xs, 1, lim) ELSE xs

KeyOf(st, r) == IF st.key = "month" THEN MonthOf(r.order_date) ELSE r[st.key]

\* the number column col of row r adds up as (total_sales: to the cent)
Number(r, col) == IF col = "total_sales" THEN r.total_sales.cents ELSE r[col]

RECURSIVE SumOver(_, _, _, _)
SumOver(st, rows, k, i) ==
    IF i > Len(rows) THEN 0
    ELSE (IF KeyOf(st, rows[i]) = k THEN Number(rows[i], st.val) ELSE 0)
         + SumOver(st, rows, k, i + 1)

\* one output row per group: the key, its aggregate num/den, and the group's first row
GroupRows(st, rows) ==
    { [ key   |-> k,
        num   |-> SumOver(st, rows, k, 1),
        den   |-> IF st.agg = "AVG"
                  THEN Cardinality({i \in 1..Len(rows) : KeyOf(st, rows[i]) = k})
                  ELSE 1,
        first |-> CHOOSE i \in 1..Len(rows) :
                      /\ KeyOf(st, rows[i]) = k
                      /\ \A j \in 1..(i - 1) : KeyOf(st, rows[j]) # k ]
      : k \in {KeyOf(st, rows[i]) : i \in 1..Len(rows)} }

\* ORDER BY: by aggregate descending, or by key ascending; equal keys of the
\* ordering come out in the order of the groups' first rows
Before(st, a, b) ==
    IF st.order = "value_desc" /\ a.num * b.den # b.num * a.den
    THEN a.num * b.den > b.num * a.den
    ELSE IF st.order = "key_asc" /\ a.key # b.key
    THEN a.key < b.key
    ELSE a.first <= b.first

RECURSIVE Sorted(_, _)
Sorted(st, S) ==
    IF S = {} THEN <<>>
    ELSE LET a == CHOOSE x \in S : \A y \in S : Before(st, x, y)
         IN  <<[key |-> a.key, num |-> a.num, den |-> a.den]>> \o Sorted(st, S \ {a})

Eval(st, rows) ==
    IF st.shape = "star" THEN Take(rows, st.limit)
    ELSE Take(Sorted(st, GroupRows(st, rows)), st.limit)

Ok(rows)   == [status |-> "ok", rows |-> rows]
Err(msg)   == [status |-> "error", message |-> msg]

SqlErrors == {"syntax error", "no such table", "no such column", "datatype mismatch"}

\* what sqlite is handed: the statement of the SQL text, if there is a text
Parse(sqltext) == IF sqltext = None THEN [kind |-> "none"] ELSE Stmt(sqltext.some)

\* mutant: a statement sqlite rejects leaves a fresh, empty connection behind
ExecSQL_reset_on_error(c, st) ==
    CASE st.kind = "none"         -> <<c, Err("TypeError")>>
      [] st.kind = "syntax_error" -> <<Connect, Err("syntax error")>>
      [] st.kind = "empty"        -> <<c, Err("no result set")>>
      [] st.kind = "limit_not_integer" -> <<c, Err("datatype mismatch")>>
      [] st.kind = "delete"       ->
            IF st.table \in c.tables
            THEN <<[c EXCEPT !.rows = <<>>], Err("no result set")>>
            ELSE <<Connect, Err("no such table")>>
      [] st.kind = "select"       ->
            IF st.table \notin c.tables THEN <<Connect, Err("no such table")>>
            ELSE IF ~(st.cols \subseteq c.columns) THEN <<Connect, Err("no such column")>>
            ELSE <<c, Ok(Eval(st, c.rows))>>

\* pd.read_sql_query(sql, conn) inside try/except, st the statement of sql:
\* <<connection afterwards, outcome>>
ExecSQL(c, st) ==
    CASE st.kind = "none"         -> <<c, Err("TypeError")>>
      [] st.kind = "syntax_error" -> <<c, Err("syntax error")>>
      [] st.kind = "empty"        -> <<c, Err("no result set")>>
      [] st.kind = "limit_not_integer" -> <<c, Err("datatype mismatch")>>
      [] st.kind = "delete"       ->
            IF st.table \in c.tables
            THEN <<[c EXCEPT !.rows = <<>>], Err("no result set")>>
            ELSE <<c, Err("no such table")>>
      [] st.kind = "select"       ->
            IF st.table \notin c.tables THEN <<c, Err("no such table")>>
            ELSE IF ~(st.cols \subseteq c.columns) THEN <<c, Err("no such column")>>
            ELSE <<c, Ok(Eval(st, c.rows))>>

(***************************************************************************)
(* Delegated translation (nl2sql_demo.py).                                 *)
(***************************************************************************)
Truthy(o) == o # None /\ o.some # ""

Raise(msg)  == [kind |-> "raise", msg |-> msg]
Reply(text) == [kind |-> "reply", content |-> text]

\* The backtick cannot be written in a TLA+ string: the character ~ stands for it.
Fence    == "~~~"
FenceSql == "~~~sql"

\* mutant: only the fence with the language tag is removed
CleanSQL_tagged_only(content) == Strip(Remove(Strip(content), FenceSql))

\* lines 211-213: strip, drop the fences, strip
CleanSQL(content) == Strip(Remove(Remove(Strip(content), FenceSql), Fence))

\* mutant: the error value is the bare exception text
GptError_bare(msg) == msg

\* line 217: the error value of the except branch
GptError(msg) == "GPT Error: " \o msg

\* NL2SQLEngine.generate_sql_with_gpt: <<sql, error>>; out is what the service does
generate_sql_with_gpt(q, key, out) ==
    IF ~Truthy(key) THEN <<None, Some("API key not provided")>>
    ELSE IF out.kind = "raise" THEN <<None, Some(GptError(out.msg))>>
    ELSE IF out.content = None
         THEN <<None, Some(GptError("'NoneType' object has no attribute 'strip'"))>>
    ELSE <<Some(CleanSQL(out.content.some)), None>>

\* main, lines 326-338: the translation step
demo_translate(q, ai, key, out) ==
    LET gpt == generate_sql_with_gpt(q, key, out)
        first == IF ai /\ Truthy(key)
                 THEN [sql |-> gpt[1], error |-> gpt[2], method |-> "AI-Generated"]
                 ELSE [sql |-> Some(generate_sql_rule_based(q)), error |-> None,
                       method |-> "Rule-Based"]
    IN  IF Truthy(first.error)
        THEN [sql |-> Some(generate_sql_rule_based(q)), error |-> first.error,
              method |-> "Rule-Based (Fallback)"]
        ELSE first

\* the inline translation step of app.py and mvp_app.py
inline_translate(s, q) == [sql |-> Some(RuleSQL(s, q)), error |-> None, method |-> "Rule-Based"]

(***************************************************************************)
(* Inputs of the sessions.                                                 *)
(***************************************************************************)
RowChoices  == 1..MaxRows
DefaultRows == (MaxRows + 1) \div 2      \* the sliders' default, scaled into RowChoices

DemoSamples == {"Show total sales by region", "Top 5 products by quantity sold",
                "Customers with most orders"}
AppSamples  == {"Show total sales by region", "Top 5 products by quantity",
                "Monthly sales trend", "Customer types analysis"}
CustomOption == "Custom query..."
MvpOptions  == <<"Show total sales by region", "Top products by quantity sold",
                 "Monthly sales trend", "Average price by product", CustomOption>>
TypedQuestions == {"", "Top 3 products by quantity", "profit per Category"}
ApiKeys == {"", "sk-test"}

DelegateOutcomes ==
    { Raise("timeout"), Raise(""), Reply(None),
      Reply(Some(FenceSql \o "\n" \o PreviewSQL \o "\n" \o Fence)),
      Reply(Some(NoTableSQL)),
      Reply(Some(DeleteSQL)),
      Reply(Some(Fence \o "\n" \o Fence)) }

NoCache == [n \in RowChoices |-> None]

(***************************************************************************)
(* One run of a script: translate the question and execute the SQL.        *)
(***************************************************************************)
\* the query part of a run on connection c; tr is the translation
RunQuery(c, tr) ==
    \E st \in {Parse(tr.sql)} : \E ex \in {ExecSQL(c, st)} :
        /\ conn' = Some(ex[1])
        /\ sql' = tr.sql
        /\ error' = tr.error
        /\ method' = tr.method
        /\ result' = ex[2]

NoQuery(c) ==
    /\ conn' = Some(c)
    /\ sql' = None
    /\ error' = None
    /\ method' = ""
    /\ result' = None

\* nl2sql_demo.py main, after event ev left the widgets at n, ai, key, ssq, txt
DemoRun(ev, n, ai, key, ssq, txt, out) ==
    \E gen \in {IF cache[n] = None
                THEN demo_generate_sales_data(n, rng)
                ELSE <<cache[n].some, rng>>} :
      \E c0 \in {setup_database(DemoColumns, gen[1])} :
        /\ script = "nl2sql_demo"
        /\ cache' = [cache EXCEPT ![n] = Some(gen[1])]
        /\ rng' = gen[2]
        /\ df' = Some(gen[1])
        /\ n_rows' = n /\ use_ai' = ai /\ api_key' = key
        /\ ss_question' = ssq /\ question' = txt
        /\ response' = IF txt # "" /\ ai /\ Truthy(key) THEN Some(out) ELSE None
        /\ IF txt # ""
           THEN \E tr \in {demo_translate(txt, ai, key, out)} : RunQuery(c0, tr)
           ELSE NoQuery(c0)
        /\ pc' = "idle" /\ event' = ev
        /\ UNCHANGED <<script, selected>>

\* the delegate outcomes a run can meet
OutcomesFor(txt, ai, key) ==
    IF txt # "" /\ ai /\ Truthy(key) THEN DelegateOutcomes ELSE {Raise("")}

\* a text input created with default d: a changed default makes a new widget
TextInput(d) == IF d # ss_question THEN d ELSE question

DemoLoad ==
    /\ pc = "start"
    /\ DemoRun("load", n_rows, use_ai, api_key, ss_question, question, Raise(""))

DemoSlide ==
    /\ pc = "idle"
    /\ \E n \in RowChoices \ {n_rows} :
         \E out \in OutcomesFor(question, use_ai, api_key) :
           DemoRun("slide", n, use_ai, api_key, ss_question, question, out)

DemoToggleAI ==
    /\ pc = "idle"
    /\ \E out \in OutcomesFor(question, ~use_ai, IF use_ai THEN None ELSE Some("")) :
         DemoRun("toggle_ai", n_rows, ~use_ai, IF use_ai THEN None ELSE Some(""),
                 ss_question, question, out)

DemoSetKey ==
    /\ pc = "idle" /\ use_ai
    /\ \E k \in ApiKeys \ {api_key.some} :
         \E out \in OutcomesFor(question, use_ai, Some(k)) :
           DemoRun("set_key", n_rows, use_ai, Some(k), ss_question, question, out)

DemoSample ==
    /\ pc = "idle"
    /\ \E q \in DemoSamples :
         \E out \in OutcomesFor(TextInput(q), use_ai, api_key) :
           DemoRun("sample", n_rows, use_ai, api_key, q, TextInput(q), out)

DemoType ==
    /\ pc = "idle"
    /\ \E q \in TypedQuestions \ {question} :
         \E out \in OutcomesFor(q, use_ai, api_key) :
           DemoRun("type", n_rows, use_ai, api_key, ss_question, q, out)

\* app.py main, after event ev; clicked: the Generate Data button was pressed
AppRun(ev, n, clicked, ssq, txt) ==
    \E gen \in {IF clicked THEN app_generate_sales_data(n, rng)
                ELSE IF df = None THEN app_generate_sales_data(DefaultRows, rng)
                ELSE <<df.some, rng>>} :
      \E c0 \in {IF clicked \/ df = None
                 THEN setup_database(AppColumns, gen[1])
                 ELSE conn.some} :
        /\ script = "app"
        /\ rng' = gen[2]
        /\ df' = Some(gen[1])
        /\ n_rows' = n /\ ss_question' = ssq /\ question' = txt
        /\ IF txt # ""
           THEN \E tr \in {inline_translate("app", txt)} : RunQuery(c0, tr)
           ELSE NoQuery(c0)
        /\ pc' = "idle" /\ event' = ev
        /\ UNCHANGED <<script, use_ai, api_key, cache, response, selected>>

AppLoad ==
    /\ pc = "start"
    /\ AppRun("load", n_rows, FALSE, ss_question, question)

AppSlide ==
    /\ pc = "idle"
    /\ \E n \in RowChoices \ {n_rows} : AppRun("slide", n, FALSE, ss_question, question)

AppGenerate ==
    /\ pc = "idle"
    /\ AppRun("generate", n_rows, TRUE, ss_question, question)

\* a sample button: current_question = q, then st.rerun()
AppSample ==
    /\ pc = "idle"
    /\ \E q \in AppSamples : AppRun("sample", n_rows, FALSE, q, TextInput(q))

AppType ==
    /\ pc = "idle"
    /\ \E q \in TypedQuestions \ {question} :
         AppRun("type", n_rows, FALSE, ss_question, q)

\* mvp_app.py, after event ev; custom is the value of the custom-query text input
MvpRun(ev, n, clicked, sel, custom) ==
    \E gen \in {IF clicked \/ df = None
                THEN create_sample_data(n, rng)
                ELSE <<df.some, rng>>} :
      \E c0 \in {IF clicked \/ df = None
                 THEN setup_database(MvpColumns, gen[1])
                 ELSE conn.some} :
        \E q \in {IF sel = CustomOption /\ custom # "" THEN custom ELSE sel} :
        /\ script = "mvp_app"
        /\ rng' = gen[2]
        /\ df' = Some(gen[1])
        /\ n_rows' = n /\ selected' = sel /\ question' = q
        /\ IF q # "" /\ q # CustomOption
           THEN \E tr \in {inline_translate("mvp_app", q)} : RunQuery(c0, tr)
           ELSE NoQuery(c0)
        /\ pc' = "idle" /\ event' = ev
        /\ UNCHANGED <<script, use_ai, api_key, ss_question, cache, response>>

\* the custom-query text input: rendered only while the custom option is selected
CustomText == IF selected = CustomOption /\ question # CustomOption THEN question ELSE ""

MvpLoad ==
    /\ pc = "start"
    /\ MvpRun("load", n_rows, FALSE, selected, "")

MvpSlide ==
    /\ pc = "idle"
    /\ \E n \in RowChoices \ {n_rows} : MvpRun("slide", n, FALSE, selected, CustomText)

MvpGenerate ==
    /\ pc = "idle"
    /\ MvpRun("generate", n_rows, TRUE, selected, CustomText)

MvpSelect ==
    /\ pc = "idle"
    /\ \E i \in 1..Len(MvpOptions) :
         /\ MvpOptions[i] # selected
         /\ MvpRun("select", n_rows, FALSE, MvpOptions[i], "")

MvpType ==
    /\ pc = "idle" /\ selected = CustomOption
    /\ \E q \in TypedQuestions \ {CustomText} :
         MvpRun("type", n_rows, FALSE, selected, q)

(***************************************************************************)
(* The sessions.                                                           *)
(***************************************************************************)
Init ==
    /\ script \in Scripts
    /\ pc = "start"
    /\ rng \in StartStates
    /\ n_rows = DefaultRows
    /\ use_ai = TRUE
    /\ api_key = Some("")
    /\ question = ""
    /\ ss_question = ""
    /\ cache = NoCache
    /\ df = None
    /\ conn = None
    /\ response = None
    /\ sql = None
    /\ error = None
    /\ method = ""
    /\ result = None
    /\ selected = MvpOptions[1]
    /\ event = "none"

Next ==
    \/ DemoLoad \/ DemoSlide \/ DemoToggleAI \/ DemoSetKey \/ DemoSample \/ DemoType
    \/ AppLoad \/ AppSlide \/ AppGenerate \/ AppSample \/ AppType
    \/ MvpLoad \/ MvpSlide \/ MvpGenerate \/ MvpSelect \/ MvpType

Spec == Init /\ [][Next]_vars

(***************************************************************************)
(* The pure functions on bounded inputs: questions and delegate replies    *)
(* built from fragments.                                                   *)
(***************************************************************************)
QuestionFragments ==
    {"Total Sales by REGION", "total sales", "region", "Top ", "top", "lap",
     "3", "0", "9223372036854775808", " ", "Products", "Monthly", "trend",
     "profit by category", "average price"}

ReplyFragments ==
    {FenceSql, Fence, "~", "~~", "sql", "\n", " ", "SELECT 1"}

RECURSIVE Texts(_, _)
Texts(frags, k) ==
    IF k = 0 THEN {""}
    ELSE LET shorter == Texts(frags, k - 1)
         IN  shorter \cup {t \o f : t \in shorter, f \in frags}

Questions == Texts(QuestionFragments, MaxFrags)
Replies   == Texts(ReplyFragments, MaxParts)

Idle(s) ==
    /\ script = s
    /\ rng = 0
    /\ n_rows = DefaultRows
    /\ use_ai = TRUE
    /\ cache = NoCache
    /\ df = None
    /\ conn = None
    /\ ss_question = ""
    /\ error = None
    /\ result = None
    /\ selected = MvpOptions[1]
    /\ event = "none"

\* a question is put to the rule-based translator of one of the scripts
InitRules ==
    /\ \E s \in Scripts : Idle(s)
    /\ pc = "ask"
    /\ question \in Questions
    /\ api_key = None
    /\ response = None
    /\ sql = None
    /\ method = ""

RuleTranslate ==
    /\ pc = "ask"
    /\ pc' = "translated"
    /\ sql' = Some(RuleSQL(script, question))
    /\ method' = "Rule-Based"
    /\ UNCHANGED <<script, rng, n_rows, use_ai, api_key, question, ss_question,
                   cache, df, conn, response, error, result, selected, event>>

SpecRules == InitRules /\ [][RuleTranslate]_vars

\* the delegate answers with a text; generate_sql_with_gpt cleans it
InitClean ==
    /\ Idle("nl2sql_demo")
    /\ pc = "reply"
    /\ question = "Show total sales by region"
    /\ api_key = Some("sk-test")
    /\ response \in {Some(Reply(Some(t))) : t \in Replies}
    /\ sql = None
    /\ method = ""

CleanReply ==
    /\ pc = "reply"
    /\ pc' = "cleaned"
    /\ sql' = generate_sql_with_gpt(question, api_key, response.some)[1]
    /\ method' = "AI-Generated"
    /\ UNCHANGED <<script, rng, n_rows, use_ai, api_key, question, ss_question,
                   cache, df, conn, response, error, result, selected, event>>

SpecClean == InitClean /\ [][CleanReply]_vars

(***************************************************************************)
(* Data generation on its own: the generator of a script is called with    *)
(* any row count, other code draws random numbers in between.              *)
(***************************************************************************)
RowCounts == -1..MaxRows

\* generate(n) of script s in generator state r, ch the st.cache_data entries:
\* [df, error, rng, cache].  range(n) is empty for n <= 0: app.py returns the
\* empty frame, the other two read a column of a frame without columns.
GenerateCall(s, n, r, ch) ==
    IF n <= 0
    THEN IF s = "app"
         THEN [df |-> Some(<<>>), error |-> None, rng |-> seed(SeedValue), cache |-> ch]
         ELSE [df |-> None, error |-> Some("KeyError"), rng |-> r, cache |-> ch]
    ELSE LET gen == CASE s = "nl2sql_demo" ->
                            IF ch[n] = None THEN demo_generate_sales_data(n, r)
                            ELSE <<ch[n].some, r>>
                      [] s = "app"     -> app_generate_sales_data(n, r)
                      [] s = "mvp_app" -> create_sample_data(n, r)
         IN  [df |-> Some(gen[1]), error |-> None, rng |-> gen[2],
              cache |-> IF s = "nl2sql_demo" THEN [ch EXCEPT ![n] = Some(gen[1])] ELSE ch]

InitGen ==
    /\ script \in Scripts
    /\ pc = "gen"
    /\ rng \in 0..(RngMod - 1)
    /\ n_rows \in RowCounts
    /\ use_ai = TRUE
    /\ api_key = None
    /\ question = ""
    /\ ss_question = ""
    /\ cache = NoCache
    /\ df = None
    /\ conn = None
    /\ response = None
    /\ sql = None
    /\ error = None
    /\ method = ""
    /\ result = None
    /\ selected = MvpOptions[1]
    /\ event = "none"

\* a call of the generator; a call that repeats the previous one is a "regenerate"
Generate ==
    /\ pc \in {"gen", "generated"}
    /\ \E g \in {GenerateCall(script, n_rows, rng, cache)} :
         /\ df' = g.df
         /\ error' = g.error
         /\ rng' = g.rng
         /\ cache' = g.cache
    /\ event' = IF pc = "generated" THEN "regenerate" ELSE "generate"
    /\ pc' = "generated"
    /\ UNCHANGED <<script, n_rows, use_ai, api_key, question, ss_question, conn,
                   response, sql, method, result, selected>>

\* some other code draws a random number
Draw ==
    /\ pc \in {"gen", "generated"}
    /\ rng' = RngNext(rng)
    /\ event' = "draw"
    /\ UNCHANGED <<script, pc, n_rows, use_ai, api_key, question, ss_question, cache,
                   df, conn, response, sql, error, method, result, selected>>

\* the next call asks for another row count
Resize ==
    /\ pc \in {"gen", "generated"}
    /\ \E n \in RowCounts \ {n_rows} : n_rows' = n
    /\ pc' = "gen"
    /\ event' = "slide"
    /\ UNCHANGED <<script, rng, use_ai, api_key, question, ss_question, cache,
                   df, conn, response, sql, error, method, result, selected>>

SpecGen == InitGen /\ [][Generate \/ Draw \/ Resize]_vars

(***************************************************************************)
(* Properties.                                                             *)
(***************************************************************************)
RegionSQLOf(s) == IF s = "nl2sql_demo" THEN DemoRegionSQL ELSE AppRegionSQL

HasRegionPattern(q)  == Contains(Lower(q), "total sales") /\ Contains(Lower(q), "region")
HasTopPattern(q)     == Contains(Lower(q), "top") /\ Contains(Lower(q), "product")
HasTrendPattern(q)   == Contains(Lower(q), "monthly") \/ Contains(Lower(q), "trend")
HasProfitPattern(q)  == Contains(Lower(q), "profit") /\ Contains(Lower(q), "category")
HasAveragePattern(q) == Contains(Lower(q), "average") /\ Contains(Lower(q), "price")

\* some keyword pattern of script s matches q
AnyPattern(s, q) ==
    \/ HasRegionPattern(q) \/ HasTopPattern(q) \/ HasTrendPattern(q)
    \/ IF s = "mvp_app" THEN HasAveragePattern(q) ELSE HasProfitPattern(q)

\* C1: a question with "total sales" and "region", in any letter case, is
\* translated to the region aggregation (GROUP BY region, ORDER BY the sum
\* descending) by every script, whatever later pattern it also satisfies.
C1_RegionRuleFirst ==
    (pc = "translated" /\ HasRegionPattern(question)) =>
        /\ sql = Some(RegionSQLOf(script))
        /\ Stmt(sql.some) = Group("region", "SUM", "total_sales", "value_desc", -1)

C1_Witness ==
    /\ pc = "translated"
    /\ HasRegionPattern(question) /\ HasTopPattern(question)
    /\ Lower(question) # question
    /\ sql = Some(RegionSQLOf(script))

\* the integer that follows "top" in q, 5 when there is none
ExpectedLimit(q) ==
    IF ReSearchTop(Lower(q)) = None THEN 5 ELSE LimitOf(ReSearchTop(Lower(q)).some)

\* C2: when the top-products rule is the one that matches, the LIMIT of the
\* SQL is the integer following "top" in the question, and 5 without one.
C2_TopLimit ==
    (pc = "translated" /\ ~HasRegionPattern(question) /\ HasTopPattern(question)) =>
        Stmt(sql.some).limit = ExpectedLimit(question)

\* C3: the preview query is returned for exactly the questions that match
\* none of the script's keyword patterns.
C3_PreviewIffNoMatch ==
    pc = "translated" => (sql = Some(PreviewSQL) <=> ~AnyPattern(script, question))

C3_Witness ==
    /\ pc = "translated"
    /\ sql = Some(PreviewSQL)
    /\ Contains(Lower(question), "total sales") /\ Contains(Lower(question), "top")

DelegateFailed == response # None /\ (response.some.kind = "raise" \/ response.some.content = None)

\* C4: a run in delegated mode whose delegate call fails reports the fallback
\* method, hands the rule-based SQL of the same question to execution, and
\* reaches the execution step.
C4_FallbackOnFailure ==
    (script = "nl2sql_demo" /\ pc = "idle" /\ DelegateFailed) =>
        /\ method = "Rule-Based (Fallback)"
        /\ sql = Some(generate_sql_rule_based(question))
        /\ Truthy(error)
        /\ result # None

C4_Witness ==
    /\ script = "nl2sql_demo" /\ pc = "idle"
    /\ response = Some(Raise(""))
    /\ method = "Rule-Based (Fallback)"
    /\ sql = Some(DemoRegionSQL)
    /\ result # None /\ result.status = "ok"

\* C5: delegated mode without an API key yields the rule-based SQL and
\* reports the fallback method.
C5_NoKeyFallback ==
    (script = "nl2sql_demo" /\ pc = "idle" /\ use_ai /\ ~Truthy(api_key) /\ question # "") =>
        /\ sql = Some(generate_sql_rule_based(question))
        /\ method = "Rule-Based (Fallback)"

\* C6: whenever a run executes a query, the SQL handed to the store is a
\* non-empty text.
C6_UsableSQL ==
    (pc = "idle" /\ result # None) => (sql # None /\ sql.some # "")

\* C7: the SQL of a successful delegated translation holds no fence and has
\* no whitespace at either end.
C7_NoFence ==
    pc = "cleaned" =>
        /\ sql # None
        /\ ~Contains(sql.some, Fence)
        /\ sql.some # "" => /\ ~IsSpace(Char(sql.some, 1))
                            /\ ~IsSpace(Char(sql.some, Len(sql.some)))

C7_Witness ==
    /\ pc = "cleaned"
    /\ response = Some(Reply(Some(FenceSql \o "\n" \o "SELECT 1" \o Fence)))
    /\ sql = Some("SELECT 1")

\* the events that ask for a (re)generation of the dataset
IsGeneration(s, ev) ==
    IF s = "nl2sql_demo" THEN ev \in {"load", "slide"} ELSE ev \in {"load", "generate"}

SqlFailed(r) == r # None /\ r.status = "error" /\ r.message \in SqlErrors

\* C8: a run whose SQL sqlite rejects (syntax, unknown table or column) ends
\* in the idle state with the table still holding the dataset, the dataset
\* unchanged, and a valid query of the next run sees the rows of that dataset.
C8_SqlErrorRecoverable ==
    [][ /\ SqlFailed(result') =>
            /\ pc' = "idle"
            /\ "sales" \in conn'.some.tables
            /\ conn'.some.rows = df'.some
            /\ (pc = "idle" /\ ~IsGeneration(script, event')) =>
                   (df' = df /\ (script # "nl2sql_demo" => conn' = conn))
        /\ (SqlFailed(result) /\ ~IsGeneration(script, event')
                /\ result' # None /\ result'.status = "ok") =>
               result'.rows = Eval(Parse(sql'), df.some)
      ]_vars

C8_Witness ==
    /\ pc = "idle"
    /\ sql = Some(NoTableSQL)
    /\ result = Err("no such table")
    /\ conn.some.rows = df.some /\ Len(df.some) > 0

\* C9: the table holds exactly the rows of the most recent generation, and a
\* successful query is evaluated on exactly those rows.
C9_ReplaceOnLoad ==
    pc = "idle" =>
        /\ script \in {"app", "mvp_app"} =>
              (conn.some.tables = {"sales"} /\ conn.some.rows = df.some)
        /\ (result # None /\ result.status = "ok") =>
              result.rows = Eval(Parse(sql), df.some)

C9_Witness ==
    /\ pc = "idle" /\ script = "mvp_app" /\ event = "generate"
    /\ Len(df.some) > DefaultRows
    /\ sql = Some(PreviewSQL)
    /\ result = Ok(df.some)

\* C10: a run that is not a generation request leaves the dataset as it was,
\* and after every run the table holds the rows of the dataset.
C10_ReadOnly ==
    [][ pc' = "idle" =>
            /\ (pc = "idle" /\ ~IsGeneration(script, event')) => df' = df
            /\ conn'.some.rows = df'.some
      ]_vars

(***************************************************************************)
(* Data generation                                                         *)
(***************************************************************************)
\* the price column of a script's rows
PriceOf(s, r) == IF s = "mvp_app" THEN r.price ELSE r.unit_price

\* C11: for every row count above zero the generator returns exactly that
\* many records, and no two of them carry the same order_id
C11_CountAndDistinctIds ==
    (pc = "generated" /\ n_rows > 0) =>
        /\ df # None
        /\ Len(df.some) = n_rows
        /\ \A i, j \in 1..Len(df.some) :
               i # j => df.some[i].order_id # df.some[j].order_id

C11_Witness ==
    /\ pc = "generated" /\ n_rows = MaxRows /\ df # None
    /\ Len(df.some) = MaxRows
    /\ df.some[1].order_id \in {"ORD10000", "ORD00000"}
    /\ df.some[2].order_id \in {"ORD10001", "ORD00001"}

\* C12: a call of the generator with a row count of zero or less fails with
\* InvalidArgument and returns no dataset
C12_InvalidArgument ==
    (pc = "generated" /\ n_rows <= 0) =>
        (df = None /\ error = Some("InvalidArgument"))

\* C13: generation is reproducible.  In app.py, which seeds, the records of
\* generate(n) are the same from every state of the random generator; in
\* nl2sql_demo.py, whose calls are memoised, they are the records of the first
\* call with that n, which are never replaced; so a repeated call returns the
\* records of the call before, whatever was drawn or generated in between
C13_Deterministic ==
    /\ [](  (pc = "generated" /\ n_rows > 0) =>
              /\ script = "app" =>
                    \A r \in 0..(RngMod - 1) :
                        df = Some(app_generate_sales_data(n_rows, r)[1])
              /\ script = "nl2sql_demo" => df = cache[n_rows] )
    /\ [][ /\ \A n \in RowChoices : cache[n] # None => cache'[n] = cache[n]
           /\ (event' = "regenerate" /\ n_rows > 0
                  /\ script \in {"app", "nl2sql_demo"}) => (df # None /\ df' = df)
         ]_vars

C13_Witness ==
    /\ script = "app" /\ pc = "generated" /\ event = "regenerate"
    /\ n_rows = MaxRows /\ df = Some(app_generate_sales_data(MaxRows, 0)[1])
    /\ Len(df.some) = MaxRows

\* C14: in every generated record total_sales is the product of the record's
\* quantity and price rounded to 2 decimals
C14_TotalSalesRounded ==
    (pc = "generated" /\ df # None) =>
        \A i \in 1..Len(df.some) :
            df.some[i].total_sales =
                Round2(FloatMul(df.some[i].quantity, PriceOf(script, df.some[i])))

(***************************************************************************)
(* Rule-based SQL against the script's own table                           *)
(***************************************************************************)
\* the store of script s after a load of DefaultRows generated rows
LoadedStore(s) ==
    setup_database(Columns(s), GenerateCall(s, DefaultRows, 1, NoCache).df.some)

\* C15: whatever the question, the SQL of a script's rule-based translator
\* is a query of the table sales over columns the script's generator
\* creates, and the loaded store answers it without an SQL error
C15_RuleSQLExecutes ==
    pc = "translated" =>
        /\ Parse(sql).kind = "select"
        /\ Parse(sql).table = "sales"
        /\ Parse(sql).cols \subseteq Columns(script)
        /\ ExecSQL(LoadedStore(script), Parse(sql))[2].status = "ok"

(***************************************************************************)
(* Session state of app.py and mvp_app.py                                  *)
(***************************************************************************)
\* C16: in app.py and mvp_app.py a query has been executed only in a run
\* that ended with the session holding a dataset and a connection, and the
\* connection is the store loaded from exactly that dataset
C16_StoreInStep ==
    /\ result # None => pc = "idle"
    /\ (pc = "idle" /\ script \in {"app", "mvp_app"}) =>
          /\ df # None
          /\ conn # None
          /\ conn.some = to_sql(Connect, Columns(script), df.some, "replace")

C16_Witness ==
    /\ script = "app" /\ pc = "idle" /\ event = "sample"
    /\ df # None /\ Len(df.some) = MaxRows
    /\ conn # None /\ conn.some.rows = df.some
    /\ result # None /\ result.status = "ok"

====
